---------------------------- MODULE Spec2Model ----------------------------
(***************************************************************************)
(* Model of the Finance-MCP agent glue code:                               *)
(*   agent/auth.py        OAuth2TokenProvider (token cache and refresh)    *)
(*   agent/mcp_client.py  create_finance_client                            *)
(*   agent/config.py      load_config, _get_secret_from_aws                *)
(*   my_agent.py          module load and the invoke entrypoint            *)
(*                                                                         *)
(* Four specifications share the module:                                   *)
(*   Spec        one provider, sequential get_token calls, moving clock    *)
(*   SpecConc    two threads inside get_token on one provider              *)
(*   SpecInvoke  the invoke handler, statement by statement                *)
(*   SpecConfig  load_config at module load, then requests                 *)
(***************************************************************************)
EXTENDS Integers, Sequences, FiniteSets, TLC

VARIABLES
    now,          \* datetime.now(), in seconds
    token,        \* OAuth2TokenProvider._token
    expires_at,   \* OAuth2TokenProvider._expires_at: <<>> is None, <<t>> a datetime
    gt,           \* history of the sequential get_token calls
    thr,          \* the threads inside get_token (SpecConc)
    inv,          \* position and locals of invoke (SpecInvoke)
    cfg           \* environment, secrets store and module-load outcome (SpecConfig)

vars == <<now, token, expires_at, gt, thr, inv, cfg>>

-----------------------------------------------------------------------------
(* Bounds of the model *)

MaxCalls == 3        \* get_token calls on the one provider
MaxTicks == 3        \* clock advances
MaxInvocations == 2  \* requests handled by invoke

(* Program constants *)

SafetyMargin == 60        \* auth.py:62   expires_in - 60
DefaultLifetime == 3600   \* auth.py:61   token_data.get("expires_in", 3600)

-----------------------------------------------------------------------------
(* Python values *)

None == "None"            \* the None object where a str is expected
NoTime == <<>>            \* None where a datetime / int is expected
Absent == "<absent>"      \* a key or variable that is not there

\* bool(x) of an Optional[str]: None and "" are falsy
Truthy(s) == s # None /\ s # Absent /\ s # ""

-----------------------------------------------------------------------------
(* The token endpoint *)

\* access tokens are non-empty strings (RFC 6749: access-token = 1*VSCHAR);
\* an empty one would be cached and, being falsy at line 43, never served
Tokens == {"tokA", "tokB"}

\* lifetimes the endpoint may report; NoTime: the response has no expires_in
ExpiresInValues == {30, 60, 61, 120}

\* what requests.post(...) and the body can come to
\*   ok          2xx, JSON body with access_token (and maybe expires_in)
\*   http_error  non-2xx: raise_for_status() raises HTTPError
\*   conn_error  requests.post itself raises (no connection, timeout)
\*   no_token    2xx, JSON body without access_token: KeyError at line 60
\*   bad_expires 2xx, expires_in is not a number: TypeError at line 62
Responses ==
    [kind : {"ok"}, access_token : Tokens,
     expires_in : {<<e>> : e \in ExpiresInValues} \cup {NoTime}]
    \cup [kind : {"http_error", "conn_error", "no_token"},
          access_token : {None}, expires_in : {NoTime}]
    \cup [kind : {"bad_expires"}, access_token : Tokens, expires_in : {NoTime}]

\* amounts the clock moves by between calls
Steps == {1, 59, 3480}

\* seconds a token exchange may take (line 43 to line 62)
Latencies == {0, 1}

-----------------------------------------------------------------------------
(* OAuth2TokenProvider *)

\* mutant: the margin taken a second time at the check
CacheValidDoubleMargin(tok, exp, t) ==
    Truthy(tok) /\ exp # NoTime /\ t < exp[1] - SafetyMargin

\* mutant: a token still served at its cached expiry instant
CacheValidInclusive(tok, exp, t) == Truthy(tok) /\ exp # NoTime /\ t <= exp[1]

\* auth.py:43  self._token and self._expires_at and datetime.now() < self._expires_at
CacheValid(tok, exp, t) == Truthy(tok) /\ exp # NoTime /\ t < exp[1]

\* auth.py:61  token_data.get("expires_in", 3600)
Lifetime(resp) ==
    IF resp.expires_in = NoTime THEN DefaultLifetime ELSE resp.expires_in[1]

\* mutant: the expiry cached without the safety margin
NewExpiryNoMargin(t, resp) == <<t + Lifetime(resp)>>

\* auth.py:62  datetime.now() + timedelta(seconds=expires_in - 60)
NewExpiry(t, resp) == <<t + Lifetime(resp) - SafetyMargin>>

\* mutant: a failed exchange tried again inside the same call
PostsSentRetry(tok, exp, t) == IF CacheValid(tok, exp, t) THEN 0 ELSE 2

\* auth.py:47-56  the requests this call sends to the token endpoint
PostsSent(tok, exp, t) == IF CacheValid(tok, exp, t) THEN 0 ELSE 1

\* auth.py:60  self._token after the call (t: the instant line 43 reads)
TokenAfter(tok, exp, t, resp) ==
    IF CacheValid(tok, exp, t) THEN tok
    ELSE IF resp.kind \in {"ok", "bad_expires"} THEN resp.access_token
    ELSE tok

\* auth.py:62  self._expires_at after the call (t2: the instant line 62 reads)
ExpiryAfter(tok, exp, t, t2, resp) ==
    IF CacheValid(tok, exp, t) THEN exp
    ELSE IF resp.kind = "ok" THEN NewExpiry(t2, resp)
    ELSE exp

\* auth.py:44,56,60,62,64  how the call ends
Outcome(tok, exp, t, resp) ==
    IF CacheValid(tok, exp, t) THEN "cached"
    ELSE IF resp.kind = "ok" THEN "fetched"
    ELSE "raised"

\* the record of a call that has not happened
NoCall ==
    [kind |-> "none", token |-> None, at |-> 0, posts |-> 0, got |-> None,
     hadCache |-> FALSE]

\* OAuth2TokenProvider.__init__ (auth.py:26-30)
InitProvider == token = None /\ expires_at = NoTime

\* one get_token() call; the exchange, when there is one, takes d seconds.
\* gt.last records the call (how it ended, what it returned and when, the
\* requests it sent); gt.issuedAt and gt.life are the instant and the
\* lifetime of the last token the provider cached.
get_token(resp, d) ==
    /\ gt.calls < MaxCalls
    /\ LET valid == CacheValid(token, expires_at, now)
           t2 == IF valid THEN now ELSE now + d
           out == Outcome(token, expires_at, now, resp)
           tok2 == TokenAfter(token, expires_at, now, resp)
       IN /\ now' = t2
          /\ token' = tok2
          /\ expires_at' = ExpiryAfter(token, expires_at, now, t2, resp)
          /\ gt' = [calls |-> gt.calls + 1,
                    ticks |-> gt.ticks,
                    issuedAt |-> IF out = "fetched" THEN t2 ELSE gt.issuedAt,
                    life |-> IF out = "fetched" THEN Lifetime(resp) ELSE gt.life,
                    last |-> [kind |-> out,
                              token |-> IF out = "raised" THEN None ELSE tok2,
                              at |-> t2,
                              posts |-> PostsSent(token, expires_at, now),
                              got |-> IF valid THEN None ELSE resp.access_token,
                              hadCache |-> Truthy(token) /\ expires_at # NoTime]]
    /\ UNCHANGED <<thr, inv, cfg>>

\* time passes between two calls
Tick(s) ==
    /\ gt.ticks < MaxTicks
    /\ now' = now + s
    /\ gt' = [gt EXCEPT !.ticks = @ + 1]
    /\ UNCHANGED <<token, expires_at, thr, inv, cfg>>

-----------------------------------------------------------------------------
(* Two threads inside get_token on the same provider: the statements of     *)
(* get_token interleave (nothing in auth.py locks the two fields).          *)

Threads == {1, 2}

NoResponse == [kind |-> "none", access_token |-> None, expires_in |-> NoTime]

\* a thread that has not called get_token: its position, the response it
\* holds (token_data), the instant it read at line 62 and the value it returned
IdleThread == [pc |-> "idle", resp |-> NoResponse, at |-> NoTime, ret |-> None]

Idle == [t \in Threads |-> IdleThread]

\* auth.py:43-44  the cache check; a valid cache is returned at once
Check(t) ==
    /\ thr[t].pc = "idle"
    /\ thr' = [thr EXCEPT ![t] =
                 IF CacheValid(token, expires_at, now)
                 THEN [@ EXCEPT !.pc = "cached", !.ret = token]
                 ELSE [@ EXCEPT !.pc = "post"]]
    /\ UNCHANGED <<now, token, expires_at, gt, inv, cfg>>

\* auth.py:47-59  the exchange: post, raise_for_status, json
Post(t, resp) ==
    /\ thr[t].pc = "post"
    /\ thr' = [thr EXCEPT ![t] =
                 IF resp.kind \in {"http_error", "conn_error"}
                 THEN [@ EXCEPT !.pc = "raised"]
                 ELSE [@ EXCEPT !.pc = "write_token", !.resp = resp]]
    /\ UNCHANGED <<now, token, expires_at, gt, inv, cfg>>

\* auth.py:60  self._token = token_data["access_token"]
WriteToken(t) ==
    /\ thr[t].pc = "write_token"
    /\ IF thr[t].resp.kind = "no_token"
       THEN /\ thr' = [thr EXCEPT ![t].pc = "raised"]
            /\ UNCHANGED token
       ELSE /\ token' = thr[t].resp.access_token
            /\ thr' = [thr EXCEPT ![t].pc = "write_expiry"]
    /\ UNCHANGED <<now, expires_at, gt, inv, cfg>>

\* auth.py:61-62  self._expires_at = datetime.now() + timedelta(...)
WriteExpiry(t) ==
    /\ thr[t].pc = "write_expiry"
    /\ IF thr[t].resp.kind = "bad_expires"
       THEN /\ thr' = [thr EXCEPT ![t].pc = "raised"]
            /\ UNCHANGED expires_at
       ELSE /\ expires_at' = NewExpiry(now, thr[t].resp)
            /\ thr' = [thr EXCEPT ![t].pc = "return",
                                  ![t].at = <<now>>]
    /\ UNCHANGED <<now, token, gt, inv, cfg>>

\* auth.py:64  return self._token
Return(t) ==
    /\ thr[t].pc = "return"
    /\ thr' = [thr EXCEPT ![t].pc = "fetched", ![t].ret = token]
    /\ UNCHANGED <<now, token, expires_at, gt, inv, cfg>>

-----------------------------------------------------------------------------
(* my_agent.py: the invoke entrypoint, statement by statement *)

\* my_agent.py:38  the default of payload.get("prompt", ...)
Greeting == "Hello! How can I help you today?"

\* request payloads: the value under "prompt", or Absent when the key is missing
Prompts == {Absent, "x", ""}

\* my_agent.py:38  payload.get("prompt", "Hello! How can I help you today?")
UserMessage(prompt) == IF prompt = Absent THEN Greeting ELSE prompt

\* my_agent.py:50,81  the tool sets the two agents are built with
AllTools == "mcp_tools+file_tools"
FileTools == "file_tools"

\* one execution of a prompt: the agent's tool set and the message it is given
Execution(tools, msg) == [tools |-> tools, prompt |-> msg]

\* result.message of an agent with these tools run on this message
Response(tools, msg) == [by |-> tools, to |-> msg]

\* mutant: a handler that lets authentication errors through
CaughtUnlessAuth(step) == step # "token"

\* my_agent.py:76  except Exception: catches whatever the try block raised,
\* named here by the step that raised it
Caught(step) == TRUE

\* mutant: the connection closed only after a successful execution
ClosedOnSuccessOnly(pending) == pending = "return"

\* my_agent.py:45  the with statement calls finance_client.__exit__ when the
\* block is left, by return or by exception
ClosedOnExit(pending) == TRUE

IdleInvoke ==
    [pc |-> "idle", n |-> 0, user_message |-> None, conn |-> "none",
     opens |-> 0, closes |-> 0, execs |-> <<>>, tokenCalls |-> 0, posts |-> 0,
     tokenResp |-> "none", prevTokenResp |-> "none", failedAt |-> "none",
     pending |-> "none", agentRaised |-> FALSE, fallbackRaised |-> FALSE,
     outcome |-> "none", result |-> None]

\* an exception raised by `step` inside the try block, outside the with block
RaisedInTry(step) ==
    IF Caught(step)
    THEN [inv EXCEPT !.pc = "except", !.failedAt = step]
    ELSE [inv EXCEPT !.pc = "done", !.failedAt = step, !.outcome = "raised"]

\* my_agent.py:28,38  the runtime calls invoke(payload)
invoke(prompt) ==
    /\ inv.pc \in {"idle", "done"}
    /\ inv.n < MaxInvocations
    /\ inv' = [IdleInvoke EXCEPT !.pc = "create_client",
                                 !.n = inv.n + 1,
                                 !.user_message = UserMessage(prompt),
                                 !.prevTokenResp = inv.tokenResp]
    /\ UNCHANGED <<now, token, expires_at, gt, thr, cfg>>

\* my_agent.py:42, mcp_client.py:23-38  create_finance_client(config): a new
\* provider, one get_token() call on it, then the MCPClient constructor
create_finance_client(resp, ctor) ==
    /\ inv.pc = "create_client"
    /\ token' = TokenAfter(None, NoTime, now, resp)
    /\ expires_at' = ExpiryAfter(None, NoTime, now, now, resp)
    /\ LET called == [inv EXCEPT !.tokenCalls = @ + 1,
                                  !.posts = @ + PostsSent(None, NoTime, now),
                                  !.tokenResp = resp.kind]
       IN inv' = IF Outcome(None, NoTime, now, resp) = "raised"
                 THEN [RaisedInTry("token") EXCEPT
                          !.tokenCalls = called.tokenCalls,
                          !.posts = called.posts,
                          !.tokenResp = called.tokenResp]
                 ELSE IF ctor = "raise"
                 THEN [RaisedInTry("create") EXCEPT
                          !.tokenCalls = called.tokenCalls,
                          !.posts = called.posts,
                          !.tokenResp = called.tokenResp]
                 ELSE [called EXCEPT !.pc = "enter"]
    /\ UNCHANGED <<now, gt, thr, cfg>>

\* my_agent.py:45  with finance_client: __enter__ opens the connection
Enter(res) ==
    /\ inv.pc = "enter"
    /\ inv' = IF res = "raise" THEN RaisedInTry("open")
              ELSE [inv EXCEPT !.pc = "list_tools", !.conn = "open",
                               !.opens = @ + 1]
    /\ UNCHANGED <<now, token, expires_at, gt, thr, cfg>>

\* my_agent.py:47  finance_client.list_tools_sync()
ListTools(res) ==
    /\ inv.pc = "list_tools"
    /\ inv' = IF res = "raise"
              THEN [inv EXCEPT !.pc = "exit", !.pending = "raise",
                               !.failedAt = "discover"]
              ELSE [inv EXCEPT !.pc = "agent"]
    /\ UNCHANGED <<now, token, expires_at, gt, thr, cfg>>

\* my_agent.py:50-74  Agent(tools=all_tools) and agent(user_message), the
\* connection still open; an exception of either is handled the same way
RunAgent(res) ==
    /\ inv.pc = "agent"
    /\ LET ran == [inv EXCEPT !.pc = "exit",
                               !.execs = Append(@, Execution(AllTools,
                                                             inv.user_message))]
       IN inv' = IF res = "raise"
                 THEN [ran EXCEPT !.pending = "raise", !.agentRaised = TRUE]
                 ELSE [ran EXCEPT !.pending = "return",
                                  !.result = Response(AllTools, inv.user_message)]
    /\ UNCHANGED <<now, token, expires_at, gt, thr, cfg>>

\* my_agent.py:45,74,76  the with block is left: __exit__, then either the
\* return of line 74 or the except clause.  __exit__ (MCPClient.stop) is
\* taken to complete; it is called once whatever it does.
Exit ==
    /\ inv.pc = "exit"
    /\ LET left == IF ClosedOnExit(inv.pending)
                   THEN [inv EXCEPT !.conn = "closed", !.closes = @ + 1]
                   ELSE inv
           step == IF inv.agentRaised THEN "agent" ELSE "discover"
       IN inv' = IF inv.pending = "return"
                 THEN [left EXCEPT !.pc = "done", !.outcome = "returned"]
                 ELSE IF Caught(step)
                 THEN [left EXCEPT !.pc = "except"]
                 ELSE [left EXCEPT !.pc = "done", !.outcome = "raised"]
    /\ UNCHANGED <<now, token, expires_at, gt, thr, cfg>>

\* my_agent.py:76-92  the except clause: warning, Agent(tools=file tools),
\* agent(user_message); an exception raised here leaves invoke
Fallback(res) ==
    /\ inv.pc = "except"
    /\ LET ran == [inv EXCEPT !.pc = "done",
                               !.execs = Append(@, Execution(FileTools,
                                                             inv.user_message))]
       IN inv' = IF res = "raise"
                 THEN [ran EXCEPT !.outcome = "raised", !.fallbackRaised = TRUE,
                                  !.result = None]
                 ELSE [ran EXCEPT !.outcome = "returned",
                                  !.result = Response(FileTools, inv.user_message)]
    /\ UNCHANGED <<now, token, expires_at, gt, thr, cfg>>

-----------------------------------------------------------------------------
(* agent/config.py: load_config, run once when my_agent.py is imported *)

\* config.py:82  model_id
ModelId == "us.anthropic.claude-sonnet-4-5-20250929-v1:0"

\* config.py:83  the default of os.getenv("FINANCE_MCP_URL", ...)
DefaultFinanceUrl == "https://finance.macrospire.com/mcp"

\* the process environment after load_dotenv(): each variable is unset,
\* set to the empty string, or set to a value
Environments ==
    [FINANCE_MCP_URL : {Absent, "", "https://mcp.example/mcp"},
     AUTH_SERVER_TOKEN_URL : {Absent, "", "https://auth.example/token"},
     MCP_CLIENT_ID : {Absent, "", "env-id"},
     MCP_CLIENT_SECRET : {Absent, "", "env-secret"},
     SECRET_NAME : {Absent, "", "finance/mcp"}]

\* what the lookup of config.py:32-37 can meet
\*   import_error      boto3 is not installed: `import boto3` raises ImportError
\*   client_error      get_secret_value raises ClientError (secret not found,
\*                     access denied)
\*   no_credentials    boto3 raises NoCredentialsError, which is no ClientError
\*   no_secret_string  the response has no 'SecretString' (binary secret): KeyError
\*   bad_json          SecretString is not JSON: json.JSONDecodeError
\*   falsy             SecretString is JSON for {}, [], null, 0, "" or false
\*   non_mapping       SecretString is JSON for a non-empty list, string or number
\*   dict              SecretString is JSON for a non-empty object; its two
\*                     keys of interest are missing, empty or set
SecretStores ==
    [kind : {"import_error", "client_error", "no_credentials",
             "no_secret_string", "bad_json", "falsy", "non_mapping"},
     MCP_CLIENT_ID : {Absent}, MCP_CLIENT_SECRET : {Absent}]
    \cup [kind : {"dict"},
          MCP_CLIENT_ID : {Absent, "", "sm-id"},
          MCP_CLIENT_SECRET : {Absent, "", "sm-secret"}]

\* os.getenv(name) / dict.get(name): None when the key is not there
Get(v) == IF v = Absent THEN None ELSE v

\* config.py:20-40  _get_secret_from_aws: the value returned, or the
\* exception that leaves it.  With boto3 missing, line 33 never binds the
\* local name ClientError, so evaluating the except clause of line 38 raises
\* UnboundLocalError; NoCredentialsError and JSONDecodeError match none of
\* the three classes of line 38.
get_secret_from_aws(store) ==
    CASE store.kind = "import_error" ->
             [raised |-> "UnboundLocalError", data |-> "none"]
      [] store.kind \in {"client_error", "no_secret_string"} ->
             [raised |-> "no", data |-> "none"]
      [] store.kind = "no_credentials" ->
             [raised |-> "NoCredentialsError", data |-> "none"]
      [] store.kind = "bad_json" ->
             [raised |-> "JSONDecodeError", data |-> "none"]
      [] OTHER -> [raised |-> "no", data |-> store.kind]

\* mutant: the client secret is not validated
MissingFieldNoSecretCheck(c) ==
    IF ~Truthy(c.auth_server_token_url) THEN "AUTH_SERVER_TOKEN_URL"
    ELSE IF ~Truthy(c.mcp_client_id) THEN "MCP_CLIENT_ID"
    ELSE "none"

\* config.py:90-95  the first required field that is missing, or "none"
MissingField(c) ==
    IF ~Truthy(c.auth_server_token_url) THEN "AUTH_SERVER_TOKEN_URL"
    ELSE IF ~Truthy(c.mcp_client_id) THEN "MCP_CLIENT_ID"
    ELSE IF ~Truthy(c.mcp_client_secret) THEN "MCP_CLIENT_SECRET"
    ELSE "none"

NoConfig ==
    [model_id |-> None, finance_mcp_url |-> None, auth_server_token_url |-> None,
     mcp_client_id |-> None, mcp_client_secret |-> None]

\* config.py:43-97  load_config: the AgentConfig returned, or the exception
load_config_result(env, store) ==
    LET looked == Truthy(env.SECRET_NAME)                        \* line 67
        got == IF looked THEN get_secret_from_aws(store)         \* line 70
               ELSE [raised |-> "no", data |-> "none"]
        from_secret == got.data \in {"dict", "non_mapping"}      \* line 73
        config ==
            [model_id |-> ModelId,
             finance_mcp_url |->
                 IF env.FINANCE_MCP_URL = Absent THEN DefaultFinanceUrl
                 ELSE env.FINANCE_MCP_URL,
             auth_server_token_url |-> Get(env.AUTH_SERVER_TOKEN_URL),
             mcp_client_id |->
                 IF from_secret THEN Get(store.MCP_CLIENT_ID)    \* line 74
                 ELSE Get(env.MCP_CLIENT_ID),                    \* line 77
             mcp_client_secret |->
                 IF from_secret THEN Get(store.MCP_CLIENT_SECRET)
                 ELSE Get(env.MCP_CLIENT_SECRET)]
    IN IF got.raised # "no"
       THEN [raised |-> got.raised, config |-> NoConfig]
       ELSE IF got.data = "non_mapping"
       THEN [raised |-> "AttributeError", config |-> NoConfig]   \* line 74
       ELSE IF MissingField(config) # "none"
       THEN [raised |-> "ValueError", config |-> NoConfig]
       ELSE [raised |-> "no", config |-> config]

NoEnvironment ==
    [FINANCE_MCP_URL |-> Absent, AUTH_SERVER_TOKEN_URL |-> Absent,
     MCP_CLIENT_ID |-> Absent, MCP_CLIENT_SECRET |-> Absent,
     SECRET_NAME |-> Absent]

NoStore ==
    [kind |-> "client_error", MCP_CLIENT_ID |-> Absent,
     MCP_CLIENT_SECRET |-> Absent]

\* a process that has not been started
IdleProcess ==
    [pc |-> "idle", env |-> NoEnvironment, store |-> NoStore,
     raised |-> "no", config |-> NoConfig, served |-> 0]

\* my_agent.py:20  config = load_config() at import: an exception here ends
\* the import, so line 27 never registers invoke and app.run() is not reached
load_config ==
    /\ cfg.pc = "start"
    /\ LET r == load_config_result(cfg.env, cfg.store)
       IN cfg' = [cfg EXCEPT !.pc = IF r.raised = "no" THEN "serving"
                                    ELSE "aborted",
                             !.raised = r.raised,
                             !.config = r.config]
    /\ UNCHANGED <<now, token, expires_at, gt, thr, inv>>

\* my_agent.py:27,96  the running app hands a request to invoke
Serve ==
    /\ cfg.pc = "serving"
    /\ cfg.served < MaxInvocations
    /\ cfg' = [cfg EXCEPT !.served = @ + 1]
    /\ UNCHANGED <<now, token, expires_at, gt, thr, inv>>

Init ==
    /\ now = 0
    /\ InitProvider
    /\ gt = [calls |-> 0, ticks |-> 0, last |-> NoCall, issuedAt |-> 0, life |-> 0]
    /\ thr = Idle
    /\ inv = IdleInvoke
    /\ cfg = IdleProcess

Next ==
    \/ \E resp \in Responses, d \in Latencies : get_token(resp, d)
    \/ \E s \in Steps : Tick(s)

Spec == Init /\ [][Next]_vars

NextConc ==
    \/ \E t \in Threads : Check(t)
    \/ \E t \in Threads, resp \in Responses : Post(t, resp)
    \/ \E t \in Threads : WriteToken(t)
    \/ \E t \in Threads : WriteExpiry(t)
    \/ \E t \in Threads : Return(t)
    \/ \E s \in Steps : Tick(s)

SpecConc == Init /\ [][NextConc]_vars

CallResults == {"ok", "raise"}

NextInvoke ==
    \/ \E prompt \in Prompts : invoke(prompt)
    \/ \E resp \in Responses, ctor \in CallResults :
          create_finance_client(resp, ctor)
    \/ \E res \in CallResults : Enter(res)
    \/ \E res \in CallResults : ListTools(res)
    \/ \E res \in CallResults : RunAgent(res)
    \/ Exit
    \/ \E res \in CallResults : Fallback(res)

SpecInvoke == Init /\ [][NextInvoke]_vars

\* a process is started in some environment, with the secrets store in some
\* condition
InitConfig ==
    /\ now = 0
    /\ InitProvider
    /\ gt = [calls |-> 0, ticks |-> 0, last |-> NoCall, issuedAt |-> 0, life |-> 0]
    /\ thr = Idle
    /\ inv = IdleInvoke
    /\ cfg \in [pc : {"start"}, env : Environments, store : SecretStores,
                 raised : {"no"}, config : {NoConfig}, served : {0}]

NextConfig ==
    \/ load_config
    \/ Serve

SpecConfig == InitConfig /\ [][NextConfig]_vars

-----------------------------------------------------------------------------
(* Claims about the provider, under Spec and SpecConc *)

\* a step that is one get_token() call
IsCall == gt'.calls = gt.calls + 1

\* the call before this one returned a token
LastSucceeded == gt.last.kind \in {"cached", "fetched"}

\* C1: no get_token() call returns a token at an instant at or after that
\* token's expiry (issue time + reported lifetime) minus 60 seconds, whether
\* the token came from the cache or from the exchange of this very call.
C1_NeverInsideMargin ==
    gt.last.kind \in {"cached", "fetched"}
        => gt.last.at < gt.issuedAt + gt.life - SafetyMargin

\* C2: after a successful get_token(), a call made while the clock is before
\* issue time + lifetime - 60s sends no request, returns the same token
\* string and leaves the cached token and expiry as they were.
C2_SecondCallFromCache ==
    [][(IsCall /\ LastSucceeded /\ now < gt.issuedAt + gt.life - SafetyMargin)
          => /\ gt'.last.posts = 0
             /\ gt'.last.kind = "cached"
             /\ gt'.last.token = gt.last.token
             /\ token' = token
             /\ expires_at' = expires_at]_vars

C2_Witness ==
    gt.calls >= 2 /\ gt.last.kind = "cached" /\ gt.last.posts = 0 /\ gt.last.at > 0

\* C3: a call that finds the cache empty, or the cached expiry passed or
\* inside the 60-second margin, sends exactly one request to the token
\* endpoint, and when it succeeds the cached token and the cached expiry are
\* the ones of that response.
C3_ExpiredCallExchangesOnce ==
    [][(IsCall /\ (token = None \/ expires_at = NoTime
                     \/ now >= gt.issuedAt + gt.life - SafetyMargin))
          => /\ gt'.last.posts = 1
             /\ gt'.last.kind \in {"fetched", "raised"}
             /\ gt'.last.kind = "fetched"
                   => /\ token' = gt'.last.got
                      /\ gt'.last.token = gt'.last.got
                      /\ gt'.issuedAt = gt'.last.at
                      /\ expires_at' = <<gt'.last.at + gt'.life - SafetyMargin>>]_vars

C3_Witness ==
    gt.last.kind = "fetched" /\ gt.last.hadCache /\ gt.last.posts = 1
        /\ token = gt.last.got

\* both threads found no valid cache, exchanged and returned
BothFetched == \A t \in Threads : thr[t].pc = "fetched"

\* the expiry the exchange of thread t stands for: the instant of its line 62
\* plus the lifetime of its response, minus the margin
ExpiryOf(t) ==
    <<thr[t].at[1]
        + (IF thr[t].resp.expires_in = NoTime THEN DefaultLifetime
           ELSE thr[t].resp.expires_in[1])
        - SafetyMargin>>

\* C10 as stated: once two concurrent calls that both exchanged have
\* completed, the cached token and the cached expiry come from the same
\* exchange response.
C10_SameExchange ==
    BothFetched
        => \E t \in Threads :
              token = thr[t].resp.access_token /\ expires_at = ExpiryOf(t)

\* C10 amended: once both calls have completed, the cached token is the
\* token of one of the two responses, the cached expiry is the expiry of one
\* of the two responses (not always the same one), and each call returned
\* the token of one of the two responses.
C10_EachFieldFromSomeExchange ==
    BothFetched
        => /\ \E t \in Threads : token = thr[t].resp.access_token
           /\ \E t \in Threads : expires_at = ExpiryOf(t)
           /\ \A t \in Threads :
                 \E u \in Threads : thr[t].ret = thr[u].resp.access_token

C10_Witness ==
    /\ BothFetched
    /\ thr[1].resp.access_token # thr[2].resp.access_token
    /\ token = thr[1].resp.access_token
    /\ expires_at = ExpiryOf(2)
    /\ expires_at # ExpiryOf(1)

-----------------------------------------------------------------------------
(* Claims about invoke, under SpecInvoke *)

Done == inv.pc = "done"

\* a step of the attempt path before agent execution raised
SetupFailed == inv.failedAt \in {"token", "create", "open", "discover"}

\* the prompt was run once, on the agent that has the file tools only
RanOnceOnFileTools == inv.execs = <<Execution(FileTools, inv.user_message)>>

\* C4 as stated: when a step before agent execution raises, invoke does not
\* raise: it runs the same prompt exactly once on the local-tools agent and
\* returns a mapping whose 'result' is that agent's response.
C4_FallbackAlwaysReturns ==
    (Done /\ SetupFailed)
        => /\ inv.outcome = "returned"
           /\ RanOnceOnFileTools
           /\ inv.result = Response(FileTools, inv.user_message)

\* C4 amended: when a step before agent execution raises, invoke runs the
\* same prompt exactly once on the local-tools agent; it returns that
\* agent's response under 'result' when that execution completes, and the
\* exception of that execution leaves invoke when it raises.
C4_FallbackRunsOnce ==
    (Done /\ SetupFailed)
        => /\ RanOnceOnFileTools
           /\ ~inv.fallbackRaised
                 => /\ inv.outcome = "returned"
                    /\ inv.result = Response(FileTools, inv.user_message)
           /\ inv.fallbackRaised => inv.outcome = "raised"

C4_Witness ==
    /\ Done
    /\ inv.failedAt = "discover"
    /\ inv.outcome = "returned"
    /\ inv.result = Response(FileTools, "x")

\* C5: when the tool-server connection was opened it is closed exactly once
\* before invoke returns or raises; it is closed before the fallback
\* execution begins, and never open once the handler has finished.
C5_ConnectionClosedOnce ==
    /\ inv.opens <= 1
    /\ inv.closes <= inv.opens
    /\ inv.conn = "open" <=> (inv.opens = 1 /\ inv.closes = 0)
    /\ inv.pc \in {"except", "done"}
          => (inv.closes = inv.opens /\ inv.conn # "open")

C5_Witness ==
    /\ Done
    /\ inv.opens = 1
    /\ inv.closes = 1
    /\ inv.conn = "closed"
    /\ inv.agentRaised

\* C6: an exception raised by executing the prompt, on the attempt path or on
\* the fallback path, leaves invoke: it is not caught, not turned into the
\* fallback path, and the prompt is not executed a second time.
C6_AgentErrorPropagates ==
    (Done /\ (inv.agentRaised \/ inv.fallbackRaised))
        => /\ inv.outcome = "raised"
           /\ Len(inv.execs) = 1

\* C7: every invoke makes one get_token() call and at most one token
\* request; a non-2xx answer leaves nothing cached and is not retried (the
\* fallback path runs, without a token call), and the invocation after a
\* failed one makes one request of its own.
C7_OneExchangePerInvocation ==
    /\ inv.pc \notin {"idle", "create_client"}
          => /\ inv.tokenCalls = 1
             /\ inv.posts <= 1
             /\ inv.prevTokenResp \in {"http_error", "conn_error"}
                   => inv.posts = 1
    /\ (Done /\ inv.tokenResp = "http_error")
          => /\ token = None
             /\ expires_at = NoTime
             /\ inv.posts = 1
             /\ inv.failedAt = "token"
             /\ Len(inv.execs) = 1
             /\ inv.execs[1].tools = FileTools

C7_Witness ==
    /\ Done
    /\ inv.n = 2
    /\ inv.prevTokenResp = "http_error"
    /\ inv.tokenResp = "http_error"
    /\ inv.posts = 1

-----------------------------------------------------------------------------
(* Claims about load_config, under SpecConfig *)

Present(v) == v # Absent /\ v # "" /\ v # None

ModuleLoaded == cfg.pc \in {"serving", "aborted"}

\* the lookup handed load_config a non-empty mapping
SecretUsed == Present(cfg.env.SECRET_NAME) /\ cfg.store.kind = "dict"

\* the client id and secret in the source load_config reads them from
ClientIdGiven ==
    IF SecretUsed THEN cfg.store.MCP_CLIENT_ID ELSE cfg.env.MCP_CLIENT_ID

ClientSecretGiven ==
    IF SecretUsed THEN cfg.store.MCP_CLIENT_SECRET ELSE cfg.env.MCP_CLIENT_SECRET

\* C8 as stated: when any of FINANCE_MCP_URL, AUTH_SERVER_TOKEN_URL,
\* MCP_CLIENT_ID, MCP_CLIENT_SECRET is absent or empty at load time,
\* load_config raises and the process serves no invoke.
C8_AllFourRequired ==
    (ModuleLoaded /\ (\/ ~Present(cfg.env.FINANCE_MCP_URL)
                      \/ ~Present(cfg.env.AUTH_SERVER_TOKEN_URL)
                      \/ ~Present(ClientIdGiven)
                      \/ ~Present(ClientSecretGiven)))
        => (cfg.pc = "aborted" /\ cfg.served = 0)

\* C8 amended: when AUTH_SERVER_TOKEN_URL, or the client id or the client
\* secret in the source load_config reads, is absent or empty, load_config
\* raises and the process serves no invoke; FINANCE_MCP_URL is not required:
\* unset it becomes the default URL, and set (even empty) it is kept.
C8_RequiredValuesChecked ==
    /\ (ModuleLoaded /\ (\/ ~Present(cfg.env.AUTH_SERVER_TOKEN_URL)
                         \/ ~Present(ClientIdGiven)
                         \/ ~Present(ClientSecretGiven)))
          => cfg.pc = "aborted"
    /\ cfg.pc = "aborted" => (cfg.raised # "no" /\ cfg.served = 0)
    /\ cfg.pc = "serving"
          => cfg.config.finance_mcp_url =
                IF cfg.env.FINANCE_MCP_URL = Absent THEN DefaultFinanceUrl
                ELSE cfg.env.FINANCE_MCP_URL

C8_Witness ==
    /\ cfg.pc = "aborted"
    /\ cfg.raised = "ValueError"
    /\ Present(cfg.env.FINANCE_MCP_URL)
    /\ Present(cfg.env.AUTH_SERVER_TOKEN_URL)
    /\ Present(ClientIdGiven)
    /\ ~Present(ClientSecretGiven)

\* the secrets store gave no complete pair of credentials
LookupAbsentOrFailed ==
    \/ ~Present(cfg.env.SECRET_NAME)
    \/ cfg.store.kind # "dict"
    \/ ~Present(cfg.store.MCP_CLIENT_ID)
    \/ ~Present(cfg.store.MCP_CLIENT_SECRET)

\* C9: when the secrets-store lookup is absent or fails in any way, the
\* client id and secret are taken from MCP_CLIENT_ID and MCP_CLIENT_SECRET of
\* the environment, so a process whose environment holds valid credentials
\* loads its configuration.
C9_EnvironmentFallback ==
    (/\ ModuleLoaded
     /\ LookupAbsentOrFailed
     /\ Present(cfg.env.AUTH_SERVER_TOKEN_URL)
     /\ Present(cfg.env.MCP_CLIENT_ID)
     /\ Present(cfg.env.MCP_CLIENT_SECRET))
        => /\ cfg.pc = "serving"
           /\ cfg.config.mcp_client_id = cfg.env.MCP_CLIENT_ID
           /\ cfg.config.mcp_client_secret = cfg.env.MCP_CLIENT_SECRET

=============================================================================
